---- MODULE Spec2Model ----
(***************************************************************************)
(* tpmgr: the compile-probe detection loop, the error classifier and the   *)
(* static parser (tex_parser.rs), compile_command, analyze and the         *)
(* automatic installation (commands.rs) and the dependency resolver        *)
(* (resolver.rs).                                                          *)
(*                                                                         *)
(* One invocation of the program is modelled per behaviour: Init picks the *)
(* command and its inputs, the actions are the steps of that command       *)
(* between two blocking calls (a child process run, a directory entry      *)
(* read); a library function without blocking calls is one step.           *)
(***************************************************************************)
EXTENDS Integers, Sequences, FiniteSets, TLC

\* ------------------------------------------------------------------ bounds
\* Package names are numbered in the lexicographic order of their strings, so
\* that Vec::sort() on names is the order of the integers; 1 stands for
\* "graphicx" and 2 for "hyperref" (the two command hints the model keeps).
NumNames == 2
\* Lines of compiler output per step.
MaxLines == 2
\* Steps of a configured compile chain.
MaxSteps == 2

\* tex_parser.rs:408
max_iterations == 10

Names == 1..NumNames

\* ------------------------------------------------------------------ compiler output
\* A line of combined stdout/stderr, by the shape the patterns look at:
\*   FileStyNotFound      "! LaTeX Error: File `N.sty' not found."
\*   FileClsNotFound      "! LaTeX Error: File `N.cls' not found."
\*   UnknownOption        "! LaTeX Error: Unknown option `draft' for package `N'."
\*   PackageError         "! Package N Error: Something is wrong."
\*   PackageErrorIllegal  "! Package N Error: Illegal character in array arg."
\*   UsePackage           "l.3 \usepackage{N}"
\*   BareStyNotFound      "kpathsea: N.sty not found"
\*   CantFindFile         "! Can't find file `N.sty'."
\*   ICantFindFile        "! I can't find file `N.sty'."
\*   PackageWarning       "Package N Warning: ..."
\*   UndefinedCS          "! Undefined control sequence. ... \CMD"
\*   EnvUndefined         "! LaTeX Error: Environment E undefined."
\*   MissingDollar        "! Missing $ inserted."
\*   MissingNumber        "! Missing number, treated as zero."
\*   EmergencyStop        "! Emergency stop."
\* The name 0 is a capture that is empty or blank (`' after "for package", or
\* \usepackage{ }).
Line(k, n, c) == [kind |-> k, name |-> n, cmd |-> c]

Commands == {"includegraphics", "href", "alpha"}

Lines ==
    {Line(k, n, "") : k \in {"FileStyNotFound", "UsePackage", "PackageWarning"}, n \in Names}
    \cup {Line("UndefinedCS", 0, c) : c \in Commands}
    \cup {Line(k, 0, "") : k \in {"EnvUndefined", "MissingDollar", "EmergencyStop"}}

\* The texts a step can print: the lines matter, not their order (every
\* pattern is matched within one line and the matches are collected in a set).
Outputs == {t \in SUBSET Lines : Cardinality(t) <= MaxLines}

\* The lines one of the eight error_patterns captures a name from, one kind
\* (two for "Package ([^\s]+) Error:") per pattern in the order of the table.
CaptureKinds ==
    {"FileStyNotFound", "FileClsNotFound", "UnknownOption", "PackageError",
     "PackageErrorIllegal", "UsePackage", "BareStyNotFound", "CantFindFile",
     "ICantFindFile"}

\* The lines the classifier is checked on: every pattern of the table has one.
ClassifierLines ==
    {Line(k, n, "") : k \in CaptureKinds \cup {"PackageWarning"}, n \in Names}
    \cup {Line(k, 0, "") : k \in {"UnknownOption", "UsePackage"}}
    \cup {Line("UndefinedCS", 0, c) : c \in Commands}
    \cup {Line(k, 0, "") : k \in {"EnvUndefined", "MissingDollar", "MissingNumber",
                                  "EmergencyStop"}}

RECURSIVE SetsUpTo(_, _)
\* The subsets of S with at most k elements.
SetsUpTo(S, k) ==
    IF k = 0 THEN {{}}
    ELSE LET smaller == SetsUpTo(S, k - 1)
         IN smaller \cup {t \cup {x} : t \in smaller, x \in S}

ClassifierOutputs == SetsUpTo(ClassifierLines, MaxLines)

\* error_patterns: the name captured from a line by one of the eight patterns.
error_patterns(l) ==
    IF l.kind \in CaptureKinds THEN {l.name} ELSE {}

\* command_to_package, first match in table order.
extract_package_from_undefined_command(l) ==
    CASE l.cmd = "includegraphics" -> {1}
      [] l.cmd = "href" -> {2}
      [] OTHER -> {}

RECURSIVE SortSet(_)
\* Vec::sort() of the collected HashSet.
SortSet(S) ==
    IF S = {} THEN <<>>
    ELSE LET m == CHOOSE x \in S : \A y \in S : x <= y
         IN <<m>> \o SortSet(S \ {m})

\* Captures only: the undefined-command hints are left out.
parse_compilation_errorsNoHints(text) ==
    SortSet(UNION {error_patterns(l) : l \in text} \ {0})

\* A captured name is trimmed and kept if it is not empty (tex_parser.rs:487-490).
parse_compilation_errors(text) ==
    LET captured == UNION {error_patterns(l) : l \in text} \ {0}
        hinted == UNION {extract_package_from_undefined_command(l) :
                           l \in {x \in text : x.kind = "UndefinedCS"}}
    IN SortSet(captured \cup hinted)

\* non_package_patterns: "Missing.*\$", "Illegal.*character" and "Missing number"
\* are the ones the modelled lines can match.
non_package_patterns(l) ==
    l.kind \in {"MissingDollar", "PackageErrorIllegal", "MissingNumber"}

\* package_related_patterns: "\.sty.*not found", "\.cls.*not found",
\* "Package.*Error", "Package.*Warning", "Unknown option.*for package",
\* "Can't find file.*\.sty", "I can't find file.*\.sty",
\* "Undefined control sequence.*\\[a-zA-Z]", "Environment.*undefined".
package_related_patterns(l) ==
    l.kind \in {"FileStyNotFound", "FileClsNotFound", "PackageError",
                "PackageErrorIllegal", "PackageWarning", "UnknownOption",
                "BareStyNotFound", "CantFindFile", "ICantFindFile",
                "UndefinedCS", "EnvUndefined"}

\* The package-indicative list consulted first.
is_package_related_errorPackageFirst(text) ==
    IF \E l \in text : package_related_patterns(l) THEN TRUE
    ELSE FALSE

is_package_related_error(text) ==
    IF \E l \in text : non_package_patterns(l) THEN FALSE
    ELSE IF \E l \in text : package_related_patterns(l) THEN TRUE
    ELSE FALSE

\* ------------------------------------------------------------------ resolver data
PkgNames == {"A", "B", "C"}

\* Root names handed to resolve.
MaxRoots == 2

Dep(n, o) == [name |-> n, optional |-> o]

\* Dependency lists of a package: each other package at most once, in either
\* order, required or optional.
DepLists(self) ==
    LET others == PkgNames \ {self}
    IN {<<>>}
       \cup {<<Dep(n, o)>> : n \in others, o \in BOOLEAN}
       \cup UNION {{<<Dep(n, o), Dep(m, q)>> : m \in others \ {n},
                                               o \in BOOLEAN, q \in BOOLEAN}
                   : n \in others}

ResolvedPackage(n, v, deps) == [name |-> n, version |-> v, dependencies |-> deps]

\* What add_package can have built under one name: nothing, or one version.
VersionLists(n) ==
    {<<>>} \cup {<<ResolvedPackage(n, "1.0", d)>> : d \in DepLists(n)}

Catalogs ==
    {c \in [PkgNames -> UNION {VersionLists(n) : n \in PkgNames}] :
        \A n \in PkgNames : c[n] \in VersionLists(n)}

RootLists == UNION {[1..k -> PkgNames] : k \in 0..MaxRoots}

\* ------------------------------------------------------------------ state
VARIABLES
    command,                \* the subcommand this run executes
    steps,                  \* number of steps of the configured compile chain
    pc,                     \* position of the running function
    iteration,              \* detect_missing_packages_by_compilation: loop counter
    step_idx,               \* 1-based index of the chain step at hand
    output,                 \* what Command::output() returned for that step
    all_missing_packages,   \* the accumulator
    result,                 \* what the function returned
    notes,                  \* progress notes printed by the loop
    started,                \* chain steps started in this chain execution, in order
    exits,                  \* how each of them ended
    runs,                   \* chain executions begun so far
    first_names,            \* names returned by the first pass
    same_names,             \* every pass so far returned first_names
    skipped_known,          \* a merge skipped a name it already held while adding another
    new_passes,             \* passes that added a name to the accumulator
    cwd,                    \* the process working directory
    project_root,           \* compile_command: the directory of its path argument
    original_dir,           \* compile_command: the saved working directory
    clean,                  \* compile_command: the --clean argument
    toml,                   \* compile_command: tpmgr.toml in the project directory
    auto_clean,             \* config.project.compile.auto_clean
    texinputs,              \* the TEXINPUTS environment variable of the process
    packages,               \* DependencyResolver.packages: name -> versions
    root_packages,          \* resolve: its argument
    resolved,               \* resolve: the list it returned
    input,                  \* the argument of the library function this run calls
    answer,                 \* what that function returned
    stack,                  \* parse_directory_recursive: the frames of the recursion
    visited_files,          \* parse_project: the visited set of file paths
    parsed,                 \* parse_project: the parse_file calls made, in order
    read_failed,            \* a parse_file call returned an error
    registry,               \* PackageManager: registry.json in install_dir
    sty_files,              \* PackageManager: the <name>.sty files in install_dir
    call,                   \* PackageManager: the install or remove call made last
    last_call               \* PackageManager: per name, its last call that returned Ok

detectVars == <<iteration, step_idx, output, all_missing_packages, notes, runs,
                first_names, same_names, skipped_known, new_passes>>
chainVars == <<started, exits>>
compileVars == <<cwd, project_root, original_dir, clean, toml, auto_clean, texinputs>>
resolveVars == <<packages, root_packages, resolved>>
registryVars == <<registry, sty_files, call, last_call>>
callVars == <<input, answer>>
walkVars == <<stack, visited_files, parsed, read_failed>>
vars == <<command, steps, pc, result, detectVars, chainVars, compileVars, resolveVars, registryVars,
          callVars, walkVars>>

\* No library function is called directly and no project directory is walked.
NoCall ==
    /\ input = <<>>
    /\ answer = <<>>
    /\ stack = <<>>
    /\ visited_files = {}
    /\ parsed = <<>>
    /\ read_failed = FALSE

\* The names handed to PackageManager::install and remove.
RegNames == {"amsmath", "geometry", "keyval"}

\* registry.json does not exist.
NoRegistry == [exists |-> FALSE, entries |-> <<>>]

NoPackageCall == [op |-> "none", name |-> "", ok |-> TRUE]

\* PackageManager::new in a fresh project: install_dir is empty.
RegistryIdle ==
    /\ registry = NoRegistry
    /\ sty_files = {}
    /\ call = NoPackageCall
    /\ last_call = [n \in RegNames |-> "none"]

NoOutput == [success |-> TRUE, text |-> {}]
NoResult == [kind |-> "none", why |-> "", step |-> 0, text |-> {}, packages |-> <<>>]
Ok(pkgs) == [kind |-> "Ok", why |-> "", step |-> 0, text |-> {}, packages |-> pkgs]
Err(why, step, text) ==
    [kind |-> "Err", why |-> why, step |-> step, text |-> text, packages |-> <<>>]

Dirs == {"launch_dir", "project_dir"}

Contains(seq, x) == \E i \in 1..Len(seq) : seq[i] = x

\* Merge without the contains test: every name of the pass is pushed.
MergeAlwaysPush(acc, pkgs) == acc \o pkgs

RECURSIVE Merge(_, _)
\* tex_parser.rs:427-433, push every name the accumulator does not contain.
Merge(acc, pkgs) ==
    IF pkgs = <<>> THEN acc
    ELSE Merge(IF Contains(acc, Head(pkgs)) THEN acc ELSE Append(acc, Head(pkgs)),
               Tail(pkgs))

\* The range taken one too far (1..=max_iterations + 1).
LoopContinuesOneMore(it) == it <= max_iterations

\* for iteration in 1..=max_iterations: is there a next iteration
LoopContinues(it) == it < max_iterations

\* The empty pass not taken as the end of the loop.
ConvergedNever(missing_packages) == FALSE

\* tex_parser.rs:416, the pass found nothing: break
Converged(missing_packages) == missing_packages = <<>>

\* The break on a pass without a new name left out.
StalledNever(found_new) == FALSE

\* tex_parser.rs:435, no name of the pass was new: break
Stalled(found_new) == ~found_new

\* tex_parser.rs:452-456, after the loop
Finish(acc, printed) ==
    /\ notes' = printed \cup (IF acc = <<>> /\ max_iterations > 1
                              THEN {"max_iterations_reached"} ELSE {})
    /\ result' = Ok(acc)
    /\ pc' = "done"

\* tex_parser.rs:415-444, the loop body on Ok(missing_packages)
PassReturned(missing_packages) ==
    LET merged == Merge(all_missing_packages, missing_packages)
        found_new == merged # all_missing_packages
    IN /\ first_names' = IF iteration = 1 THEN missing_packages ELSE first_names
       /\ same_names' = IF iteration = 1 THEN TRUE
                        ELSE same_names /\ missing_packages = first_names
       /\ output' = NoOutput
       /\ IF Converged(missing_packages)
          THEN /\ Finish(all_missing_packages,
                         notes \cup {IF iteration = 1 THEN "compilation_successful"
                                     ELSE "no_more_missing"})
               /\ UNCHANGED <<iteration, step_idx, all_missing_packages,
                              skipped_known, new_passes>>
          ELSE /\ all_missing_packages' = merged
               /\ new_passes' = IF found_new THEN new_passes + 1 ELSE new_passes
               /\ skipped_known' =
                    (skipped_known \/
                       (found_new /\ \E i \in 1..Len(missing_packages) :
                                        Contains(all_missing_packages, missing_packages[i])))
               /\ IF Stalled(found_new)
                  THEN /\ Finish(merged, notes \cup {"no_new_packages"})
                       /\ UNCHANGED <<iteration, step_idx>>
                  ELSE IF LoopContinues(iteration)
                  THEN /\ iteration' = iteration + 1
                       /\ step_idx' = 1
                       /\ pc' = "once"
                       /\ notes' = notes \cup {"will_retry"}
                       /\ UNCHANGED result
                  ELSE /\ Finish(merged, notes \cup {"will_retry"})
                       /\ UNCHANGED <<iteration, step_idx>>

\* detect_missing_packages_by_compilation_once, entry: resolve the chain.
\* resolve_variables puts the tool first in every resolved step, so the
\* `resolved_args.is_empty()` skip of the chain loops never applies.
DetectOnce ==
    /\ command = "detect" /\ pc = "once"
    /\ \E resolved_ok \in BOOLEAN :
         IF ~resolved_ok
         THEN /\ result' = Err("resolve_variables", 0, {})
              /\ pc' = "done"
              /\ UNCHANGED <<runs, chainVars>>
         ELSE IF steps = 0
         THEN /\ result' = Err("empty_chain", 0, {})
              /\ pc' = "done"
              /\ UNCHANGED <<runs, chainVars>>
         ELSE /\ pc' = "spawn"
              /\ runs' = runs + 1
              /\ started' = <<>>
              /\ exits' = <<>>
              /\ UNCHANGED result
    /\ same_names' = (same_names /\ pc' # "done")
    /\ UNCHANGED <<command, steps, iteration, step_idx, output, all_missing_packages,
                   notes, first_names, skipped_known, new_passes, compileVars, resolveVars, registryVars, callVars, walkVars>>

\* Command::output()? fails: the tool cannot be launched.
DetectLaunchError ==
    /\ command = "detect" /\ pc = "spawn"
    /\ started' = Append(started, step_idx)
    /\ exits' = Append(exits, "launch_error")
    /\ result' = Err("launch", step_idx, {})
    /\ pc' = "done"
    /\ same_names' = FALSE
    /\ UNCHANGED <<command, steps, iteration, step_idx, output, all_missing_packages,
                   notes, runs, first_names, skipped_known, new_passes, compileVars,
                   resolveVars, registryVars, callVars, walkVars>>

\* Command::output() returns the exit status and the captured text.
DetectExit(outs) ==
    /\ command = "detect" /\ pc = "spawn"
    /\ \E ok \in BOOLEAN, text \in outs :
         /\ output' = [success |-> ok, text |-> text]
         /\ exits' = Append(exits, IF ok THEN "success" ELSE "failure")
    /\ started' = Append(started, step_idx)
    /\ pc' = "analyze"
    /\ UNCHANGED <<command, steps, iteration, step_idx, all_missing_packages,
                   result, notes, runs, first_names, same_names, skipped_known,
                   new_passes, compileVars, resolveVars, registryVars, callVars, walkVars>>

\* tex_parser.rs:364-366 and the end of the chain
AnalyzeSuccess ==
    /\ command = "detect" /\ pc = "analyze" /\ output.success
    /\ IF step_idx < steps
       THEN /\ step_idx' = step_idx + 1
            /\ pc' = "spawn"
            /\ output' = NoOutput
            /\ UNCHANGED <<iteration, all_missing_packages, result, notes,
                           first_names, same_names, skipped_known, new_passes>>
       ELSE PassReturned(<<>>)
    /\ UNCHANGED <<command, steps, runs, chainVars, compileVars, resolveVars, registryVars, callVars, walkVars>>

\* The verdict not consulted: a failing step never ends the run with an error.
StepFailedNeverFatal(text) ==
    [ret |-> "Ok", missing |-> parse_compilation_errors(text)]

\* tex_parser.rs:368-392: the names decide first, the verdict only when there are none
StepFailed(text) ==
    LET step_missing_packages == parse_compilation_errors(text)
    IN IF step_missing_packages # <<>>
       THEN [ret |-> "Ok", missing |-> Merge(<<>>, step_missing_packages)]
       ELSE IF ~is_package_related_error(text)
       THEN [ret |-> "Err", missing |-> <<>>]
       ELSE [ret |-> "Ok", missing |-> <<>>]

AnalyzeFailure ==
    /\ command = "detect" /\ pc = "analyze" /\ ~output.success
    /\ LET r == StepFailed(output.text)
       IN IF r.ret = "Err"
          THEN /\ result' = Err("non_package", step_idx, output.text)
               /\ pc' = "done"
               /\ same_names' = FALSE
               /\ UNCHANGED <<iteration, step_idx, output, all_missing_packages, notes,
                              first_names, skipped_known, new_passes>>
          ELSE PassReturned(r.missing)
    /\ UNCHANGED <<command, steps, runs, chainVars, compileVars, resolveVars, registryVars, callVars, walkVars>>

DetectInit ==
    /\ command = "detect"
    /\ steps \in 0..MaxSteps
    /\ pc = "once"
    /\ iteration = 1
    /\ step_idx = 1
    /\ output = NoOutput
    /\ all_missing_packages = <<>>
    /\ result = NoResult
    /\ notes = {}
    /\ started = <<>>
    /\ exits = <<>>
    /\ runs = 0
    /\ first_names = <<>>
    /\ same_names = TRUE
    /\ skipped_known = FALSE
    /\ new_passes = 0
    /\ cwd = "launch_dir"
    /\ project_root = "project_dir"
    /\ original_dir = "unset"
    /\ clean = FALSE
    /\ toml = "absent"
    /\ auto_clean = FALSE
    /\ texinputs = "inherited"
    /\ packages = [n \in PkgNames |-> <<>>]
    /\ root_packages = <<>>
    /\ resolved = <<>>
    /\ RegistryIdle
    /\ NoCall

\* ------------------------------------------------------------------ compile_command
\* commands.rs:975-996: cleaning, then the restore of the working directory.
CompileFinish(success) ==
    LET do_clean == IF success THEN clean \/ auto_clean ELSE clean
    IN \E clean_ok \in BOOLEAN, restore_ok \in BOOLEAN :
         IF do_clean /\ ~clean_ok
         THEN /\ result' = Err("clean_intermediate_files", 0, {})
              /\ UNCHANGED cwd
         ELSE IF ~restore_ok
         THEN /\ result' = Err("set_current_dir", 0, {})
              /\ UNCHANGED cwd
         ELSE /\ result' = Ok(<<>>)
              /\ cwd' = original_dir

\* commands.rs:863-930: everything before the first child process.
\* chdir_ok is FALSE when current_dir() or set_current_dir(project_root) fails.
CompileEnter ==
    /\ command = "compile" /\ pc = "enter"
    /\ \E chdir_ok \in BOOLEAN, pm_ok \in BOOLEAN, packages_dir \in BOOLEAN,
          resolved_ok \in BOOLEAN :
         IF ~chdir_ok
         THEN /\ result' = Err("set_current_dir", 0, {})
              /\ pc' = "done"
              /\ UNCHANGED <<steps, cwd, original_dir, auto_clean, texinputs>>
         ELSE /\ original_dir' = cwd
              /\ cwd' = project_root
              /\ IF toml = "invalid"
                 THEN /\ result' = Err("Config::load", 0, {})
                      /\ pc' = "done"
                      /\ UNCHANGED <<steps, auto_clean, texinputs>>
                 ELSE /\ steps' = IF toml = "absent" THEN 1 ELSE steps
                      /\ auto_clean' = IF toml = "absent" THEN FALSE ELSE auto_clean
                      /\ IF ~pm_ok
                         THEN /\ result' = Err("PackageManager::new", 0, {})
                              /\ pc' = "done"
                              /\ UNCHANGED texinputs
                         ELSE /\ texinputs' = IF packages_dir THEN "packages" ELSE texinputs
                              /\ IF ~resolved_ok
                                 THEN /\ result' = Err("resolve_variables", 0, {})
                                      /\ pc' = "done"
                                 ELSE IF steps' = 0
                                 THEN /\ result' = Ok(<<>>)
                                      /\ pc' = "done"
                                 ELSE /\ pc' = "spawn"
                                      /\ UNCHANGED result
    /\ UNCHANGED <<command, detectVars, chainVars, project_root, clean, toml, resolveVars, registryVars, callVars, walkVars>>

\* What the loop does after a step that exited successfully (commands.rs:958-959).
AfterSuccess(i) == IF i < steps THEN "next" ELSE "finish"

\* continue in place of break.
AfterFailureContinue(i) == IF i < steps THEN "next" ELSE "finish"

\* What the loop does after a step that failed or could not be launched
\* (commands.rs:960-971): break.
AfterFailure(i) == "finish"

CompileStep(exit, after) ==
    /\ command = "compile" /\ pc = "spawn"
    /\ started' = Append(started, step_idx)
    /\ exits' = Append(exits, exit)
    /\ IF after = "next"
       THEN /\ step_idx' = step_idx + 1
            /\ UNCHANGED <<pc, result, cwd>>
       ELSE /\ CompileFinish(exit = "success")
            /\ pc' = "done"
            /\ UNCHANGED step_idx
    /\ UNCHANGED <<command, steps, iteration, output, all_missing_packages, notes,
                   runs, first_names, same_names, skipped_known, new_passes,
                   project_root, original_dir, clean, toml, auto_clean, texinputs,
                   resolveVars, registryVars, callVars, walkVars>>

\* command.status() is Ok and the exit status is success.
CompileStepSuccess == CompileStep("success", AfterSuccess(step_idx))

\* command.status() is Ok and the exit status is a failure.
CompileStepFailure ==
    CompileStep("failure", AfterFailure(step_idx))

\* command.status() is Err: the tool could not be launched.
CompileStepLaunchError ==
    CompileStep("launch_error", AfterFailure(step_idx))

CompileInit ==
    /\ command = "compile"
    /\ steps \in 0..MaxSteps
    /\ pc = "enter"
    /\ iteration = 1
    /\ step_idx = 1
    /\ output = NoOutput
    /\ all_missing_packages = <<>>
    /\ result = NoResult
    /\ notes = {}
    /\ started = <<>>
    /\ exits = <<>>
    /\ runs = 0
    /\ first_names = <<>>
    /\ same_names = TRUE
    /\ skipped_known = FALSE
    /\ new_passes = 0
    /\ cwd = "launch_dir"
    /\ project_root \in Dirs
    /\ original_dir = "unset"
    /\ clean \in BOOLEAN
    /\ toml \in {"absent", "valid", "invalid"}
    /\ auto_clean \in BOOLEAN
    /\ texinputs = "inherited"
    /\ packages = [n \in PkgNames |-> <<>>]
    /\ root_packages = <<>>
    /\ resolved = <<>>
    /\ RegistryIdle
    /\ NoCall

\* ------------------------------------------------------------------ DependencyResolver
None == [name |-> "", version |-> "", dependencies |-> <<>>]

\* A variant that selects the version added first.
find_best_versionFirst(package_name) ==
    IF packages[package_name] = <<>> THEN None
    ELSE packages[package_name][1]

\* versions.last().cloned(), None for a name the catalog does not hold
find_best_version(package_name) ==
    IF packages[package_name] = <<>> THEN None
    ELSE packages[package_name][Len(packages[package_name])]

RECURSIVE Enqueue(_, _, _)
\* resolver.rs:60-64: push the non-optional dependencies not visited yet
Enqueue(queue, deps, visited) ==
    IF deps = <<>> THEN queue
    ELSE Enqueue(IF ~Head(deps).optional /\ Head(deps).name \notin visited
                 THEN Append(queue, Head(deps).name) ELSE queue,
                 Tail(deps), visited)

\* A variant that never skips a popped name.
skip_visitedNever(visited, package_name) == FALSE

\* resolver.rs:51-53: a popped name that was visited before is skipped
skip_visited(visited, package_name) == package_name \in visited

RECURSIVE Closure(_, _, _)
\* resolver.rs:50-68: the breadth-first walk from the roots
Closure(queue, visited, list) ==
    IF queue = <<>> THEN list
    ELSE LET package_name == Head(queue)
             package == find_best_version(package_name)
             seen == visited \cup {package_name}
         IN IF skip_visited(visited, package_name)
            THEN Closure(Tail(queue), visited, list)
            ELSE IF package = None THEN Closure(Tail(queue), seen, list)
            ELSE Closure(Enqueue(Tail(queue), package.dependencies, seen), seen,
                         Append(list, package))

NamesOf(list) == {list[i].name : i \in 1..Len(list)}

\* resolver.rs:98-105: one increment for every declared dependency, whether or
\* not the dependency is a package of the list
in_degree(list) ==
    [n \in NamesOf(list) |->
        LET package == CHOOSE x \in {list[i] : i \in 1..Len(list)} : x.name = n
        IN Len(package.dependencies)]

RECURSIVE DependentsOf(_, _, _)
\* resolver.rs:98-102: graph[name], the dependents of name in the order pushed
DependentsOf(name, list, i) ==
    IF i > Len(list) THEN <<>>
    ELSE SelectSeq([k \in 1..Len(list[i].dependencies) |->
                       IF list[i].dependencies[k].name = name THEN list[i].name ELSE ""],
                   LAMBDA x : x # "")
         \o DependentsOf(name, list, i + 1)

RECURSIVE Relax(_, _, _)
\* resolver.rs:121-128: decrement each dependent, queue it when it reaches zero
Relax(dependents, degree, queue) ==
    IF dependents = <<>> THEN [degree |-> degree, queue |-> queue]
    ELSE LET d == Head(dependents)
             lowered == [degree EXCEPT ![d] = @ - 1]
         IN Relax(Tail(dependents), lowered,
                  IF lowered[d] = 0 THEN Append(queue, d) ELSE queue)

RECURSIVE Kahn(_, _, _, _)
\* resolver.rs:117-130
Kahn(queue, sorted, degree, list) ==
    IF queue = <<>> THEN sorted
    ELSE LET package_name == Head(queue)
             r == Relax(DependentsOf(package_name, list, 1), degree, Tail(queue))
         IN Kahn(r.queue, Append(sorted, package_name), r.degree, list)

\* resolver.rs:133-143: the position in sorted, and for a name sorted does not
\* hold a key above every position (usize::MAX in the source)
OrderKey(sorted, name) ==
    IF \E i \in 1..Len(sorted) : sorted[i] = name
    THEN CHOOSE i \in 1..Len(sorted) : sorted[i] = name
    ELSE Len(sorted) + 1

RECURSIVE StableSortBy(_, _)
\* Vec::sort_by with the order_map keys: stable, ascending (insertion sort)
StableSortBy(list, sorted) ==
    IF list = <<>> THEN <<>>
    ELSE LET n == Len(list)
             front == StableSortBy(SubSeq(list, 1, n - 1), sorted)
             k == OrderKey(sorted, list[n].name)
             keep == {i \in 1..Len(front) : OrderKey(sorted, front[i].name) <= k}
             at == Cardinality(keep)
         IN SubSeq(front, 1, at) \o <<list[n]>> \o SubSeq(front, at + 1, Len(front))

\* The names of in-degree zero, which resolver.rs:111-115 queues in the
\* iteration order of a HashMap: any order.
ZeroDegree(list) == {n \in NamesOf(list) : in_degree(list)[n] = 0}

Orders(S) == {q \in [1..Cardinality(S) -> S] : \A i, j \in 1..Cardinality(S) :
                                                     q[i] = q[j] => i = j}

\* The reorder left out: the list stays in discovery order.
sort_by_dependenciesSkipped(list, zero_order) == list

\* The packages the topological sort never reached are removed from the list.
sort_by_dependenciesDropUnsorted(list, zero_order) ==
    LET sorted == Kahn(zero_order, <<>>, in_degree(list), list)
    IN SelectSeq(StableSortBy(list, sorted),
                 LAMBDA package : \E i \in 1..Len(sorted) : sorted[i] = package.name)

\* resolver.rs:87-146, with zero_order the order in which the HashMap yields
\* the names of in-degree zero
sort_by_dependencies(list, zero_order) ==
    StableSortBy(list, Kahn(zero_order, <<>>, in_degree(list), list))

\* resolver.rs:40-74
Resolve ==
    /\ command = "resolve" /\ pc = "resolve"
    /\ \E roots \in RootLists :
         LET list == Closure(roots, {}, <<>>)
         IN \E zero_order \in Orders(ZeroDegree(list)) :
              /\ root_packages' = roots
              /\ resolved' = sort_by_dependencies(list, zero_order)
    /\ result' = Ok(<<>>)
    /\ pc' = "done"
    /\ UNCHANGED <<command, steps, detectVars, chainVars, compileVars, packages,
                   registryVars, callVars, walkVars>>

ResolveInit ==
    /\ command = "resolve"
    /\ packages \in Catalogs
    /\ root_packages = <<>>
    /\ resolved = <<>>
    /\ pc = "resolve"
    /\ steps = 0
    /\ iteration = 1
    /\ step_idx = 1
    /\ output = NoOutput
    /\ all_missing_packages = <<>>
    /\ result = NoResult
    /\ notes = {}
    /\ started = <<>>
    /\ exits = <<>>
    /\ runs = 0
    /\ first_names = <<>>
    /\ same_names = TRUE
    /\ skipped_known = FALSE
    /\ new_passes = 0
    /\ cwd = "launch_dir"
    /\ project_root = "project_dir"
    /\ original_dir = "unset"
    /\ clean = FALSE
    /\ toml = "absent"
    /\ auto_clean = FALSE
    /\ texinputs = "inherited"
    /\ RegistryIdle
    /\ NoCall

NextResolve == Resolve

SpecResolve == ResolveInit /\ [][NextResolve]_vars

Init == DetectInit \/ CompileInit

Next ==
    \/ DetectOnce
    \/ DetectLaunchError
    \/ DetectExit(Outputs)
    \/ AnalyzeSuccess
    \/ AnalyzeFailure
    \/ CompileEnter
    \/ CompileStepSuccess
    \/ CompileStepFailure
    \/ CompileStepLaunchError

Spec == Init /\ [][Next]_vars

\* ------------------------------------------------------------------ a probe that can reach the ceiling
\* Each failing step reports one missing file: a name the accumulator holds or
\* the least name it does not hold yet, out of max_iterations + 1 names, so
\* that every one of the max_iterations passes can find a new name.
CeilingOutputs ==
    {{}} \cup
    {{Line("FileStyNotFound", n, "")} :
        n \in 1..(IF Len(all_missing_packages) < max_iterations + 1
                  THEN Len(all_missing_packages) + 1 ELSE max_iterations + 1)}

NextCeiling ==
    \/ DetectOnce
    \/ DetectLaunchError
    \/ DetectExit(CeilingOutputs)
    \/ AnalyzeSuccess
    \/ AnalyzeFailure

SpecCeiling == DetectInit /\ [][NextCeiling]_vars

\* ------------------------------------------------------------------ library calls
\* A run that calls one library function directly: no compile chain is
\* configured, no directory is entered and the resolver's catalogue is empty.
ToolIdle ==
    /\ steps = 0
    /\ iteration = 1
    /\ step_idx = 1
    /\ output = NoOutput
    /\ all_missing_packages = <<>>
    /\ notes = {}
    /\ started = <<>>
    /\ exits = <<>>
    /\ runs = 0
    /\ first_names = <<>>
    /\ same_names = TRUE
    /\ skipped_known = FALSE
    /\ new_passes = 0
    /\ cwd = "launch_dir"
    /\ project_root = "project_dir"
    /\ original_dir = "unset"
    /\ clean = FALSE
    /\ toml = "absent"
    /\ auto_clean = FALSE
    /\ texinputs = "inherited"
    /\ packages = [n \in PkgNames |-> <<>>]
    /\ root_packages = <<>>
    /\ resolved = <<>>
    /\ RegistryIdle

WalkIdle ==
    /\ stack = <<>>
    /\ visited_files = {}
    /\ parsed = <<>>
    /\ read_failed = FALSE

\* The function cmd is about to be called with one of the arguments in inputs.
CallInit(cmd, inputs) ==
    /\ command = cmd
    /\ pc = "call"
    /\ input \in inputs
    /\ answer = <<>>
    /\ result = NoResult
    /\ ToolIdle
    /\ WalkIdle

\* The call returns value.
Return(cmd, value) ==
    /\ command = cmd /\ pc = "call"
    /\ answer' = value
    /\ pc' = "done"
    /\ UNCHANGED <<command, steps, result, input, detectVars, chainVars, compileVars,
                   resolveVars, registryVars, walkVars>>

\* ------------------------------------------------------------------ check_conflicts
\* Entries of the list handed to check_conflicts.
MaxPackages == 3

Versions == {"1.0", "2.0", "3.0"}

PackageLists ==
    UNION {[1..k -> {ResolvedPackage(n, v, <<>>) : n \in {"A", "B"}, v \in Versions}]
             : k \in 0..MaxPackages}

\* format!("Version conflict for {}: {} vs {}", name, existing_version, version)
Conflict(n, existing_version, version) ==
    [name |-> n, existing_version |-> existing_version, version |-> version]

RECURSIVE ConflictLoop(_, _, _)
\* resolver.rs:152-163: the loop over the list, with the map of the first
\* version seen under each name.
ConflictLoop(list, package_versions, conflicts) ==
    IF list = <<>> THEN conflicts
    ELSE LET package == Head(list)
         IN IF package.name \in DOMAIN package_versions
            THEN ConflictLoop(Tail(list), package_versions,
                     IF package_versions[package.name] # package.version
                     THEN Append(conflicts, Conflict(package.name,
                                     package_versions[package.name], package.version))
                     ELSE conflicts)
            ELSE ConflictLoop(Tail(list),
                     (package.name :> package.version) @@ package_versions, conflicts)

check_conflicts(list) == ConflictLoop(list, <<>>, <<>>)

CheckConflicts == Return("check_conflicts", check_conflicts(input))

ConflictsInit == CallInit("check_conflicts", PackageLists)

NextConflicts == CheckConflicts

SpecConflicts == ConflictsInit /\ [][NextConflicts]_vars

\* ------------------------------------------------------------------ the classifier on one output
\* tex_parser.rs:368-387: what detect_missing_packages_by_compilation_once asks
\* of the combined output of a failed step.
Classify ==
    Return("classify", [names |-> parse_compilation_errors(input),
                        verdict |-> is_package_related_error(input)])

ClassifyInit == CallInit("classify", ClassifierOutputs)

NextClassify == Classify

SpecClassify == ClassifyInit /\ [][NextClassify]_vars

\* ------------------------------------------------------------------ parse_content
\* A source line is a sequence of tokens:
\*   cmd   one of the eight commands with its brace group, \usepackage[..]{a, b};
\*         entries are the comma-separated pieces of the group, 0 for a piece
\*         that is empty or blank
\*   %     a percent sign whose preceding character is not a backslash
\*   \%    a backslash followed by a percent sign
\*   sp    white space
Token(t, k, e) == [tok |-> t, kind |-> k, entries |-> e]

Cmd(k, e) == Token("cmd", k, e)

Percent == Token("%", "", <<>>)

EscapedPercent == Token("\\%", "", <<>>)

Space == Token("sp", "", <<>>)

\* The order of the extractor blocks of extract_dependencies.
ExtractorOrderClassFirst ==
    <<"DocumentClass", "UsePackage", "RequirePackage", "LoadClass", "Input",
      "Include", "Bibliography", "BibliographyStyle">>

ExtractorOrder ==
    <<"UsePackage", "RequirePackage", "DocumentClass", "LoadClass", "Input",
      "Include", "Bibliography", "BibliographyStyle">>

DependencyTypes == {ExtractorOrder[i] : i \in DOMAIN ExtractorOrder}

\* The kinds whose brace group goes through split_package_list.
ListKinds == {"UsePackage", "RequirePackage", "Bibliography"}

\* The tokens lines are made of. The names are 1 for "amsmath", 2 for "article".
Tokens ==
    {Percent, EscapedPercent, Space}
    \cup {Cmd(k, <<1>>) : k \in DependencyTypes}
    \cup {Cmd("UsePackage", <<2>>), Cmd("UsePackage", <<2, 0, 1>>),
          Cmd("UsePackage", <<0>>), Cmd("DocumentClass", <<2>>),
          Cmd("DocumentClass", <<0>>)}

\* Tokens on one line.
MaxTokens == 3

\* Lines of a text of more than one line.
MaxSrcLines == 2

SrcLines ==
    {<<>>, <<Percent>>, <<Space, Percent, Cmd("UsePackage", <<1>>)>>,
     <<Cmd("UsePackage", <<1>>)>>, <<Cmd("DocumentClass", <<2>>)>>,
     <<Cmd("UsePackage", <<1>>), Cmd("DocumentClass", <<2>>)>>,
     <<Cmd("Input", <<1>>)>>, <<Cmd("UsePackage", <<2, 0, 1>>)>>}

\* The texts handed to parse_content: every one-line text of up to MaxTokens
\* tokens, and the texts of up to MaxSrcLines lines out of SrcLines.
Contents ==
    {<<l>> : l \in UNION {[1..k -> Tokens] : k \in 0..MaxTokens}}
    \cup UNION {[1..k -> SrcLines] : k \in 0..MaxSrcLines}

TeXDependency(n, t, l, c) ==
    [package_name |-> n, dependency_type |-> t, line_number |-> l, context |-> c]

\* str::trim on a line: white space at both ends goes.
RECURSIVE TrimStart(_)
TrimStart(line) ==
    IF line # <<>> /\ Head(line) = Space THEN TrimStart(Tail(line)) ELSE line

RECURSIVE TrimEnd(_)
TrimEnd(line) ==
    IF line # <<>> /\ line[Len(line)] = Space
    THEN TrimEnd(SubSeq(line, 1, Len(line) - 1)) ELSE line

Trim(line) == TrimEnd(TrimStart(line))

\* tex_parser.rs:194-200
split_package_list(entries) == SelectSeq(entries, LAMBDA e : e # 0)

\* The dependencies one match of the regex of kind k pushes.
Captured(token, line_number, context) ==
    IF token.kind \in ListKinds
    THEN LET names == split_package_list(token.entries)
         IN [i \in 1..Len(names) |->
                TeXDependency(names[i], token.kind, line_number, context)]
    ELSE <<TeXDependency(token.entries[1], token.kind, line_number, context)>>

RECURSIVE CapturesIter(_, _, _, _)
\* captures_iter of the regex of kind k over the line, left to right.
CapturesIter(k, line, line_number, context) ==
    IF line = <<>> THEN <<>>
    ELSE (IF Head(line).tok = "cmd" /\ Head(line).kind = k
          THEN Captured(Head(line), line_number, context) ELSE <<>>)
         \o CapturesIter(k, Tail(line), line_number, context)

RECURSIVE Extractors(_, _, _)
\* The extractor blocks in the given order.
Extractors(order, line, line_number) ==
    IF order = <<>> THEN <<>>
    ELSE CapturesIter(Head(order), line, line_number, Trim(line))
         \o Extractors(Tail(order), line, line_number)

\* tex_parser.rs:97-191
extract_dependencies(line, line_number) == Extractors(ExtractorOrder, line, line_number)

\* line.find('%'): the first token with a percent sign in it, 0 for None.
FindPercent(line) ==
    IF \E i \in 1..Len(line) : line[i].tok \in {"%", "\\%"}
    THEN CHOOSE i \in 1..Len(line) :
            /\ line[i].tok \in {"%", "\\%"}
            /\ \A j \in 1..(i - 1) : line[j].tok \notin {"%", "\\%"}
    ELSE 0

\* tex_parser.rs:75-89: the text that is searched; skip stands for `continue`.
effective_line(line) ==
    LET comment_pos == FindPercent(line)
    IN IF comment_pos = 0 THEN [skip |-> FALSE, text |-> line]
       ELSE IF line[comment_pos].tok = "\\%" THEN [skip |-> FALSE, text |-> line]
       ELSE LET before_comment == SubSeq(line, 1, comment_pos - 1)
            IN [skip |-> Trim(before_comment) = <<>>, text |-> before_comment]

\* enumerate() counts from 0 and the loop adds 1; the index of a sequence
\* counts from 1 already.
LineNumberZeroBased(i) == i - 1

LineNumber(i) == i

RECURSIVE ParseLines(_, _, _)
\* tex_parser.rs:71-92: the loop over content.lines().
ParseLines(content, i, dependencies) ==
    IF i > Len(content) THEN dependencies
    ELSE LET line == effective_line(content[i])
         IN ParseLines(content, i + 1,
               IF line.skip THEN dependencies
               ELSE dependencies \o extract_dependencies(line.text, LineNumber(i)))

\* tex_parser.rs:68-94
parse_content(content) ==
    [kind |-> "Ok", dependencies |-> ParseLines(content, 1, <<>>)]

ParseContent == Return("parse_content", parse_content(input))

ParseInit == CallInit("parse_content", Contents)

NextParse == ParseContent

SpecParse == ParseInit /\ [][NextParse]_vars

\* ------------------------------------------------------------------ get_unique_packages
\* Dependencies in the list handed to get_unique_packages.
MaxDeps == 2

DependencyLists ==
    UNION {[1..k -> {TeXDependency(n, t, 1, <<>>) : n \in Names, t \in DependencyTypes}]
             : k \in 0..MaxDeps}

\* The kinds matched at tex_parser.rs:260-264.
PackageKinds == {"UsePackage", "RequirePackage", "DocumentClass", "LoadClass"}

\* The match on the kind left out: every name is inserted.
get_unique_packagesAnyKind(dependencies) ==
    SortSet({dependencies[i].package_name : i \in 1..Len(dependencies)})

\* tex_parser.rs:255-274
get_unique_packages(dependencies) ==
    SortSet({dependencies[i].package_name :
                i \in {x \in 1..Len(dependencies) :
                          dependencies[x].dependency_type \in PackageKinds}})

GetUniquePackages == Return("get_unique_packages", get_unique_packages(input))

UniqueInit == CallInit("get_unique_packages", DependencyLists)

NextUnique == GetUniquePackages

SpecUnique == UniqueInit /\ [][NextUnique]_vars

\* ------------------------------------------------------------------ analyze and install --auto: the report
\* The duplicate-free lists of names: what filter_core_packages returns in
\* static mode (sorted) and what the detection loop returns in compile mode
\* (in the order of discovery).
CandidateLists ==
    UNION {{q \in [1..k -> Names] : \A i, j \in 1..k : q[i] = q[j] => i = j}
             : k \in 0..NumNames}

\* What the report is made from: the mode, the candidate names, whether a
\* TeX Live installation is detected, the names in its package database and
\* the names in the registry of the project's package directory.
ReportInputs ==
    {[use_compile |-> m, candidates |-> c, texlive_available |-> a,
      installed_packages |-> t, registry |-> r] :
        m \in BOOLEAN, c \in CandidateLists, a \in BOOLEAN,
        t \in SUBSET Names, r \in SUBSET Names}

\* texlive.rs:482-484
texlive_is_package_installed(in, package) == package \in in.installed_packages

\* package.rs:215-231
local_is_package_installed(in, package) == package \in in.registry

Reported(kind, names) == [kind |-> kind, missing_packages |-> names]

\* commands.rs:365-545. Compile mode prints the list the detection loop
\* returned (441-448); static mode tests every name (491-511).
analyze_command(in) ==
    IF in.use_compile THEN Reported("Ok", in.candidates)
    ELSE Reported("Ok", SelectSeq(in.candidates, LAMBDA package :
            ~((in.texlive_available /\ texlive_is_package_installed(in, package))
              \/ local_is_package_installed(in, package))))

\* commands.rs:547-663. Compile mode takes the list of the detection loop
\* (567-625); static mode returns early on an empty list, fails when no
\* TeX Live is detected and tests the TeX Live database only (637-652).
auto_install_missing_packages(in) ==
    IF in.use_compile THEN Reported("Ok", in.candidates)
    ELSE IF in.candidates = <<>> THEN Reported("Ok", <<>>)
    ELSE IF ~in.texlive_available THEN Reported("Err", <<>>)
    ELSE Reported("Ok", SelectSeq(in.candidates, LAMBDA package :
            ~texlive_is_package_installed(in, package)))

AnalyzeCommand == Return("analyze", analyze_command(input))

AutoInstallMissingPackages ==
    Return("install_auto", auto_install_missing_packages(input))

\* No database is scanned when no TeX Live installation is detected.
ReportInit ==
    \/ CallInit("analyze",
          {in \in ReportInputs : ~in.texlive_available => in.installed_packages = {}})
    \/ CallInit("install_auto",
          {in \in ReportInputs : ~in.texlive_available => in.installed_packages = {}})

NextReport == AnalyzeCommand \/ AutoInstallMissingPackages

SpecReport == ReportInit /\ [][NextReport]_vars

\* ------------------------------------------------------------------ parse_project
\* The project directory: three directories, "root" (the project path), "sub"
\* and one that the root holds under the name ".git", ".cache" or "packages".
\* An entry of a directory is a regular file, a directory or a symbolic link
\* to a directory.
File(name, ext) == [name |-> name, kind |-> "file", to |-> "", ext |-> ext]

Dir(name, to) == [name |-> name, kind |-> "dir", to |-> to, ext |-> ""]

Link(name, to) == [name |-> name, kind |-> "link", to |-> to, ext |-> ""]

\* Symbolic links the system follows while it resolves one path; a path with
\* more of them resolves to nothing (ELOOP), so is_dir() and is_file() are false.
MaxLinkDepth == 1

RootEntrySets ==
    {{File("main.tex", "tex"), Dir("sub", "sub")} \cup l \cup g :
        l \in {{}, {Link("lnk", "root")}, {Link("lnk", "sub")}},
        g \in {{}, {Dir(".git", "git")}, {Dir(".cache", "git")},
               {Dir("packages", "git")}}}

SubEntrySets ==
    {{c, File("notes.txt", "txt")} \cup u :
        c \in {File("ch.tex", "tex"), File("CH.STY", "STY")},
        u \in {{}, {Link("up", "root")}}}

\* read_dir yields the entries of a directory in an order of its own: every
\* order of every directory is a tree of its own.
Trees ==
    {[root |-> r, sub |-> s, git |-> <<File("x.tex", "tex")>>] :
        r \in UNION {Orders(S) : S \in RootEntrySets},
        s \in UNION {Orders(S) : S \in SubEntrySets}}

\* One activation of parse_directory_recursive: its dir_path, the directory
\* the path resolves to, the links on the path and the entries still to come.
Frame(path, dir, links) ==
    [path |-> path, dir |-> dir, links |-> links, rest |-> input[dir]]

Top == stack[Len(stack)]

Entry == Head(Top.rest)

\* The caller's frame moves on to its next entry.
Advance(s) == [s EXCEPT ![Len(s)].rest = Tail(s[Len(s)].rest)]

\* path.is_dir(): follows links.
is_dir(e) ==
    \/ e.kind = "dir"
    \/ e.kind = "link" /\ Top.links + 1 <= MaxLinkDepth

\* path.is_file()
is_file(e) == e.kind = "file"

\* dir_name.starts_with('.'), over the names of the trees
starts_with_dot(dir_name) == dir_name \in {".git", ".cache"}

\* The two names only, without the test of the first character.
skipped_directoryNamed(dir_name) == dir_name = "packages" \/ dir_name = ".git"

\* tex_parser.rs:229-233
skipped_directory(dir_name) ==
    dir_name = "packages" \/ dir_name = ".git" \/ starts_with_dot(dir_name)

\* to_lowercase(), over the extensions of the trees
to_lowercase(extension) ==
    CASE extension = "TEX" -> "tex"
      [] extension = "STY" -> "sty"
      [] OTHER -> extension

\* tex_parser.rs:237-240
source_file(e) ==
    /\ to_lowercase(e.ext) \in {"tex", "latex", "sty", "cls"}
    /\ Append(Top.path, e.name) \notin visited_files

\* A parse_file error inside the walk is returned to the caller of parse_project.
FileErrorIsFatalAlways == TRUE

\* tex_parser.rs:242-245: the error of parse_file is printed as a warning.
FileErrorIsFatal == FALSE

WalkUnchanged ==
    UNCHANGED <<command, steps, result, input, detectVars, chainVars, compileVars,
                resolveVars, registryVars>>

Walking == command = "parse_project" /\ pc = "walk" /\ Top.rest # <<>>

\* parse_project calls parse_directory_recursive(project_path) and read_dir succeeds.
ParseProject ==
    /\ command = "parse_project" /\ pc = "call"
    /\ stack' = <<Frame(<<>>, "root", 0)>>
    /\ pc' = "walk"
    /\ UNCHANGED <<answer, visited_files, parsed, read_failed>>
    /\ WalkUnchanged

\* fs::read_dir(dir_path)? fails, in the first activation or in a nested one:
\* every activation returns the error.
WalkReadDirError ==
    /\ command = "parse_project"
    /\ \/ pc = "call"
       \/ Walking /\ is_dir(Entry) /\ ~skipped_directory(Entry.name)
    /\ answer' = [kind |-> "Err", why |-> "read_dir", parsed |-> <<>>]
    /\ stack' = <<>>
    /\ pc' = "done"
    /\ UNCHANGED <<visited_files, parsed, read_failed>>
    /\ WalkUnchanged

\* A directory that is not skipped: the recursive call, read_dir succeeds.
WalkRecurse ==
    /\ Walking /\ is_dir(Entry) /\ ~skipped_directory(Entry.name)
    /\ stack' = Append(Advance(stack),
                       Frame(Append(Top.path, Entry.name), Entry.to,
                             Top.links + (IF Entry.kind = "link" THEN 1 ELSE 0)))
    /\ UNCHANGED <<pc, answer, visited_files, parsed, read_failed>>
    /\ WalkUnchanged

\* `continue` for a skipped directory; nothing to do for a file with another
\* extension or a visited path, and for a path that is neither directory nor file.
WalkSkip ==
    /\ Walking
    /\ \/ is_dir(Entry) /\ skipped_directory(Entry.name)
       \/ ~is_dir(Entry) /\ is_file(Entry) /\ ~source_file(Entry)
       \/ ~is_dir(Entry) /\ ~is_file(Entry)
    /\ stack' = Advance(stack)
    /\ UNCHANGED <<pc, answer, visited_files, parsed, read_failed>>
    /\ WalkUnchanged

\* The parse_file call for the entry at hand.
ParseFileCall ==
    /\ visited_files' = visited_files \cup {Append(Top.path, Entry.name)}
    /\ parsed' = Append(parsed, [path |-> Append(Top.path, Entry.name),
                                 file |-> <<Top.dir, Entry.name>>])

\* A source file, read and parsed.
WalkParseFile ==
    /\ Walking /\ ~is_dir(Entry) /\ is_file(Entry) /\ source_file(Entry)
    /\ ParseFileCall
    /\ stack' = Advance(stack)
    /\ UNCHANGED <<pc, answer, read_failed>>
    /\ WalkUnchanged

\* A source file that cannot be read: parse_file returns Err.
WalkParseFileError ==
    /\ Walking /\ ~is_dir(Entry) /\ is_file(Entry) /\ source_file(Entry)
    /\ ParseFileCall
    /\ read_failed' = TRUE
    /\ IF FileErrorIsFatal
       THEN /\ answer' = [kind |-> "Err", why |-> "parse_file", parsed |-> <<>>]
            /\ stack' = <<>>
            /\ pc' = "done"
       ELSE /\ stack' = Advance(stack)
            /\ UNCHANGED <<pc, answer>>
    /\ WalkUnchanged

\* The loop of an activation is over: Ok(()) to the caller, and
\* Ok(all_dependencies) from parse_project after the first activation.
WalkReturn ==
    /\ command = "parse_project" /\ pc = "walk" /\ Top.rest = <<>>
    /\ stack' = SubSeq(stack, 1, Len(stack) - 1)
    /\ IF Len(stack) = 1
       THEN /\ answer' = [kind |-> "Ok", why |-> "", parsed |-> parsed]
            /\ pc' = "done"
       ELSE UNCHANGED <<pc, answer>>
    /\ UNCHANGED <<visited_files, parsed, read_failed>>
    /\ WalkUnchanged

WalkInit == CallInit("parse_project", Trees)

NextWalk ==
    \/ ParseProject
    \/ WalkReadDirError
    \/ WalkRecurse
    \/ WalkSkip
    \/ WalkParseFile
    \/ WalkParseFileError
    \/ WalkReturn

SpecWalk == WalkInit /\ [][NextWalk]_vars

\* ------------------------------------------------------------------ parse_file
\* The texts of the files handed to parse_file.
FileContents == UNION {[1..k -> SrcLines] : k \in 0..MaxSrcLines}

\* tex_parser.rs:62-65: the file is read and its content parsed.
ParseFile == Return("parse_file", parse_content(input))

\* fs::read_to_string(file_path)? fails.
ParseFileUnreadable ==
    /\ command = "parse_file" /\ pc = "call"
    /\ answer' = [kind |-> "Err", dependencies |-> <<>>]
    /\ read_failed' = TRUE
    /\ pc' = "done"
    /\ UNCHANGED <<stack, visited_files, parsed>>
    /\ WalkUnchanged

ParseFileInit == CallInit("parse_file", FileContents)

\* ------------------------------------------------------------------ the operations that meet I/O failures
IOInit == DetectInit \/ ParseFileInit \/ WalkInit

NextIO ==
    \/ DetectOnce
    \/ DetectLaunchError
    \/ DetectExit(Outputs)
    \/ AnalyzeSuccess
    \/ AnalyzeFailure
    \/ ParseFile
    \/ ParseFileUnreadable
    \/ ParseProject
    \/ WalkReadDirError
    \/ WalkRecurse
    \/ WalkSkip
    \/ WalkParseFile
    \/ WalkParseFileError
    \/ WalkReturn

SpecIO == IOInit /\ [][NextIO]_vars

\* ------------------------------------------------------------------ filter_core_packages
\* tex_parser.rs:278-283
core_packages ==
    {"latex", "latex2e", "article", "book", "report", "letter", "minimal",
     "size10", "size11", "size12", "a4paper", "letterpaper", "twoside",
     "oneside", "draft", "final", "leqno", "fleqn", "openbib", "titlepage",
     "notitlepage"}

\* Entries of the list handed to filter_core_packages.
MaxListLen == 3

\* Two core names and two others; a list may hold a name more than once.
NameLists ==
    UNION {[1..k -> {"amsmath", "article", "book", "graphicx"}] : k \in 0..MaxListLen}

\* Nothing is filtered.
filter_core_packagesKeepAll(list) == list

RECURSIVE filter_core_packages(_)
\* tex_parser.rs:285-289: iter().filter(..).cloned().collect()
filter_core_packages(list) ==
    IF list = <<>> THEN <<>>
    ELSE (IF Head(list) \in core_packages THEN <<>> ELSE <<Head(list)>>)
         \o filter_core_packages(Tail(list))

\* The list is filtered.
FilterCorePackages ==
    /\ command = "filter_core_packages" /\ pc = "call"
    /\ answer' = <<filter_core_packages(input)>>
    /\ pc' = "done"
    /\ UNCHANGED <<command, steps, result, input, detectVars, chainVars, compileVars,
                   resolveVars, registryVars, walkVars>>

\* The list that came back is filtered once more.
FilterAgain ==
    /\ command = "filter_core_packages" /\ pc = "done"
    /\ answer' = Append(answer, filter_core_packages(answer[1]))
    /\ pc' = "again"
    /\ UNCHANGED <<command, steps, result, input, detectVars, chainVars, compileVars,
                   resolveVars, registryVars, walkVars>>

FilterInit == CallInit("filter_core_packages", NameLists)

NextFilter == FilterCorePackages \/ FilterAgain

SpecFilter == FilterInit /\ [][NextFilter]_vars

\* ------------------------------------------------------------------ CompileCommand::from_string
\* Characters of the string handed to from_string.
MaxChars == 4

\* The separator, white space and two other characters.
Chars == {"|", " ", "a", "-"}

CommandStrings == UNION {[1..k -> Chars] : k \in 0..MaxChars}

ChainStep(tool, args) == [tool |-> tool, args |-> args]

\* config.rs:23-33; a word is the sequence of its characters, and the words
\* of the default chain are taken as one character each.
CompileCommand_new ==
    [steps |-> <<ChainStep(<<"pdflatex">>,
                             << <<"-interaction=nonstopmode">>,
                                <<"${PROJECT_ROOT}/main.tex">> >>)>>,
     auto_clean |-> FALSE]

RECURSIVE SplitLoop(_, _, _, _)
\* str::split(sep): the pieces between the separators, empty pieces kept.
SplitLoop(s, sep, piece, pieces) ==
    IF s = <<>> THEN Append(pieces, piece)
    ELSE IF Head(s) = sep THEN SplitLoop(Tail(s), sep, <<>>, Append(pieces, piece))
    ELSE SplitLoop(Tail(s), sep, Append(piece, Head(s)), pieces)

Split(s, sep) == SplitLoop(s, sep, <<>>, <<>>)

\* str::split_whitespace: the non-empty pieces between white space.
split_whitespace(s) == SelectSeq(Split(s, " "), LAMBDA w : w # <<>>)

RECURSIVE StepsOf(_, _)
\* config.rs:82-91 with the `continue` left out: a step for every part.
StepsOfEveryPart(parts, steps_so_far) ==
    IF parts = <<>> THEN steps_so_far
    ELSE LET cmd_parts == split_whitespace(Head(parts))
         IN StepsOf(Tail(parts),
               Append(steps_so_far,
                      ChainStep(IF cmd_parts = <<>> THEN <<>> ELSE cmd_parts[1],
                                  IF cmd_parts = <<>> THEN <<>> ELSE Tail(cmd_parts))))

\* config.rs:82-91: the loop over the parts.
StepsOf(parts, steps_so_far) ==
    IF parts = <<>> THEN steps_so_far
    ELSE LET cmd_parts == split_whitespace(Head(parts))
         IN StepsOf(Tail(parts),
               IF cmd_parts = <<>> THEN steps_so_far
               ELSE Append(steps_so_far, ChainStep(cmd_parts[1], Tail(cmd_parts))))

\* from_string with neither the `continue` nor the test for an empty step list.
from_stringUnchecked(string) ==
    [kind |-> "Ok",
     value |-> [steps |-> StepsOfEveryPart(Split(string, "|"), <<>>),
                auto_clean |-> FALSE]]

\* config.rs:74-102
from_string(string) ==
    LET parts == Split(string, "|")
        new_steps == StepsOf(parts, <<>>)
    IN IF parts = <<>> THEN [kind |-> "Err", value |-> <<>>]
       ELSE IF new_steps = <<>> THEN [kind |-> "Err", value |-> <<>>]
       ELSE [kind |-> "Ok", value |-> [steps |-> new_steps, auto_clean |-> FALSE]]

\* `self.compile_command = CompileCommand::from_string(value)?`: the field is
\* assigned when from_string returned Ok.
SetCompile(compile_command, value) ==
    LET parsed_command == from_string(value)
    IN IF parsed_command.kind = "Ok"
       THEN [kind |-> "Ok", compile_command |-> parsed_command.value]
       ELSE [kind |-> "Err", compile_command |-> compile_command]

\* config.rs:225-246, key "compile_command", on a fresh GlobalConfig.
GlobalConfigSet == Return("config_set_global", SetCompile(CompileCommand_new, input))

\* config.rs:344-374, key "compile", on a fresh project Config.
SetProjectConfig == Return("config_set_project", SetCompile(CompileCommand_new, input))

ConfigInit ==
    \/ CallInit("config_set_global", CommandStrings)
    \/ CallInit("config_set_project", CommandStrings)

NextConfig == GlobalConfigSet \/ SetProjectConfig

SpecConfig == ConfigInit /\ [][NextConfig]_vars

\* ------------------------------------------------------------------ add_package, then resolve
\* Packages handed to add_package before resolve is called.
MaxAdded == 3

\* The version string of the k-th package added under one name.
VersionLabels == <<"1.0", "2.0", "3.0", "4.0">>

\* Dependency lists of an added package: at most one dependency.
AddedDeps(self) ==
    {<<>>} \cup {<<Dep(n, o)>> : n \in PkgNames \ {self}, o \in BOOLEAN}

Added == Cardinality(UNION {{<<n, i>> : i \in 1..Len(packages[n])} : n \in PkgNames})

\* resolver.rs:33-38: entry(name).or_insert_with(Vec::new).push(package)
AddPackage ==
    /\ command = "resolve" /\ pc = "resolve"
    /\ Added < MaxAdded
    /\ \E n \in PkgNames : \E d \in AddedDeps(n) :
         LET package == ResolvedPackage(n, VersionLabels[Len(packages[n]) + 1], d)
         IN packages' = [packages EXCEPT ![n] = Append(@, package)]
    /\ UNCHANGED <<command, steps, pc, result, detectVars, chainVars, compileVars,
                   root_packages, resolved, registryVars, callVars, walkVars>>

\* DependencyResolver::new(): an empty catalog
CatalogInit ==
    /\ command = "resolve"
    /\ pc = "resolve"
    /\ result = NoResult
    /\ ToolIdle
    /\ NoCall

NextCatalog == AddPackage \/ Resolve

SpecCatalog == CatalogInit /\ [][NextCatalog]_vars

\* ------------------------------------------------------------------ PackageManager
\* package.rs:194-204: the placeholder version get_package_info reports
PlaceholderVersion == "1.0.0"

\* package.rs:220-231
is_installed(package_name) ==
    registry.exists /\ package_name \in DOMAIN registry.entries

\* package.rs:215-217
is_package_installed(package_name) == is_installed(package_name)

\* package.rs:270-286: read the map or start an empty one, insert, write
register_package(reg, package_name, version) ==
    [exists |-> TRUE,
     entries |-> (package_name :> version) @@ (IF reg.exists THEN reg.entries ELSE <<>>)]

\* A variant that writes a registry holding nothing.
unregister_packageClear(reg, package_name) ==
    IF ~reg.exists THEN reg ELSE [exists |-> TRUE, entries |-> <<>>]

\* package.rs:288-304: nothing without the file, else read, remove the key, write
unregister_package(reg, package_name) ==
    IF ~reg.exists THEN reg
    ELSE [exists |-> TRUE,
          entries |-> [n \in DOMAIN reg.entries \ {package_name} |-> reg.entries[n]]]

PackageUnchanged ==
    UNCHANGED <<command, steps, pc, result, detectVars, chainVars, compileVars,
                resolveVars, callVars, walkVars>>

PackageManagerReady == command = "package_manager" /\ pc = "ready"

Returned(op, package_name, ok) ==
    /\ call' = [op |-> op, name |-> package_name, ok |-> ok]
    /\ last_call' = IF ok THEN [last_call EXCEPT ![package_name] = op] ELSE last_call

\* package.rs:75-98, every step succeeds
Install ==
    /\ PackageManagerReady
    /\ \E package_name \in RegNames :
         /\ IF is_installed(package_name)
            THEN UNCHANGED <<registry, sty_files>>
            ELSE /\ sty_files' = sty_files \cup {package_name}
                 /\ registry' = register_package(registry, package_name, PlaceholderVersion)
         /\ Returned("install", package_name, TRUE)
    /\ PackageUnchanged

\* install returns Err: reading the registry, the download or the write of
\* the .sty file fails (nothing of install_dir changed), or register_package
\* fails after the .sty file was written.
InstallError ==
    /\ PackageManagerReady
    /\ \E package_name \in RegNames, extracted \in BOOLEAN :
         /\ extracted => ~is_installed(package_name)
         /\ sty_files' = IF extracted THEN sty_files \cup {package_name} ELSE sty_files
         /\ Returned("install", package_name, FALSE)
    /\ UNCHANGED registry
    /\ PackageUnchanged

\* package.rs:100-117, every step succeeds
Remove ==
    /\ PackageManagerReady
    /\ \E package_name \in RegNames :
         /\ IF ~is_installed(package_name)
            THEN UNCHANGED <<registry, sty_files>>
            ELSE /\ sty_files' = sty_files \ {package_name}
                 /\ registry' = unregister_package(registry, package_name)
         /\ Returned("remove", package_name, TRUE)
    /\ PackageUnchanged

\* remove returns Err: reading the registry or remove_file fails (nothing
\* changed), or unregister_package fails after the .sty file was removed.
RemoveError ==
    /\ PackageManagerReady
    /\ registry.exists
    /\ \E package_name \in RegNames, removed \in BOOLEAN :
         /\ removed => is_installed(package_name)
         /\ sty_files' = IF removed THEN sty_files \ {package_name} ELSE sty_files
         /\ Returned("remove", package_name, FALSE)
    /\ UNCHANGED registry
    /\ PackageUnchanged

PackageInit ==
    /\ command = "package_manager"
    /\ pc = "ready"
    /\ result = NoResult
    /\ ToolIdle
    /\ NoCall

NextPackage == Install \/ InstallError \/ Remove \/ RemoveError

SpecPackage == PackageInit /\ [][NextPackage]_vars

\* ------------------------------------------------------------------ claims
FailedStepAt == command = "detect" /\ pc = "analyze" /\ ~output.success

C2_UnidentifiableIsFatal ==
    [][(/\ FailedStepAt
        /\ is_package_related_error(output.text)
        /\ parse_compilation_errors(output.text) = <<>>)
         => /\ pc' = "done"
            /\ result'.kind = "Err"
            /\ runs' = runs]_vars

\* C3: compile_command leaves the working directory as it found it on every
\* exit path taken after it changed into the project directory.
C3_CwdRestored ==
    (command = "compile" /\ pc = "done" /\ original_dir # "unset")
        => cwd = original_dir

\* C4: the loop runs the chain at most max_iterations times, and when every
\* one of the max_iterations passes added a name the run has ended with Ok and
\* all the accumulated names.
C4_CeilingReturnsOk ==
    /\ runs <= max_iterations
    /\ new_passes >= max_iterations
         => /\ pc = "done"
            /\ result = Ok(all_missing_packages)
            /\ Len(all_missing_packages) >= max_iterations

C4_Witness ==
    /\ pc = "done" /\ runs = max_iterations /\ new_passes = max_iterations
    /\ result.kind = "Ok" /\ Len(result.packages) = max_iterations

\* C5: when every pass returns the same non-empty names, the loop stops as
\* stalled after two runs of the chain and returns exactly the names of pass 1.
C5_SameOutputStalls ==
    (command = "detect" /\ first_names # <<>> /\ same_names)
        => /\ runs <= 2
           /\ pc = "done" => /\ result = Ok(first_names)
                             /\ "no_new_packages" \in notes
                             /\ new_passes = 1

C5_Witness ==
    /\ command = "detect" /\ pc = "done" /\ first_names # <<>> /\ same_names
    /\ runs = 2 /\ Len(result.packages) = 2

AllSucceeded ==
    /\ steps > 0 /\ Len(exits) = steps
    /\ \A i \in 1..Len(exits) : exits[i] = "success"
    /\ pc # "analyze"

\* C6: when every step of the chain succeeds on the first run, the chain is run
\* exactly once and the loop returns Ok with an empty list (Converged).
C6_AllSucceedConverges ==
    (command = "detect" /\ runs = 1 /\ AllSucceeded)
        => /\ pc = "done"
           /\ result = Ok(<<>>)
           /\ iteration = 1
           /\ "compilation_successful" \in notes

C6_Witness ==
    /\ command = "detect" /\ runs = 1 /\ AllSucceeded /\ steps = 2 /\ pc = "done"

NoDuplicates(seq) == \A i, j \in 1..Len(seq) : seq[i] = seq[j] => i = j

IsPrefix(a, b) == Len(a) <= Len(b) /\ \A i \in 1..Len(a) : a[i] = b[i]

\* C7: the accumulator never holds a name twice and only grows at its end; the
\* list returned is the accumulator.
C7_AccumulatorAppendOnly ==
    [][/\ IsPrefix(all_missing_packages, all_missing_packages')
       /\ NoDuplicates(all_missing_packages')
       /\ (command = "detect" /\ result'.kind = "Ok")
            => result'.packages = all_missing_packages']_vars

C7_Witness ==
    /\ command = "detect" /\ pc = "done" /\ skipped_known
    /\ new_passes = 2 /\ result.packages = <<2, 1>>

\* Every declared dependency of the catalog, optional or not.
DependsOn(a, b) ==
    /\ packages[a] # <<>>
    /\ \E k \in 1..Len(find_best_version(a).dependencies) :
         find_best_version(a).dependencies[k].name = b

\* No package of the catalog reaches itself along declared dependencies
\* (PkgNames has three names: a cycle has length two or three).
Acyclic ==
    \A a, b, c \in PkgNames :
        /\ ~(DependsOn(a, b) /\ DependsOn(b, a))
        /\ ~(DependsOn(a, b) /\ DependsOn(b, c) /\ DependsOn(c, a))

InstallationOrder ==
    \A i, j \in 1..Len(resolved) :
        DependsOn(resolved[i].name, resolved[j].name) => j < i

\* C9: for an acyclic catalog the list resolve returns has every package
\* after each of its dependencies that is in the list, also when a package
\* declares an optional dependency or one the catalog does not hold.
C9_InstallationOrder ==
    (command = "resolve" /\ pc = "done" /\ Acyclic) => InstallationOrder

AllRequiredAndPresent ==
    \A a \in PkgNames : \A k \in 1..Len(packages[a]) :
        \A d \in 1..Len(packages[a][k].dependencies) :
            /\ ~packages[a][k].dependencies[d].optional
            /\ packages[packages[a][k].dependencies[d].name] # <<>>

ChainABC ==
    /\ packages["A"] = <<ResolvedPackage("A", "1.0", <<Dep("B", FALSE)>>)>>
    /\ packages["B"] = <<ResolvedPackage("B", "1.0", <<Dep("C", FALSE)>>)>>
    /\ packages["C"] = <<ResolvedPackage("C", "1.0", <<>>)>>
    /\ root_packages = <<"A">>

\* C10: for an acyclic catalog whose declared dependencies are all required
\* and present, resolve returns the closure of the roots with dependencies
\* first; for A -> B -> C and root A it returns exactly [C, B, A].
C10_TopologicalOrder ==
    (command = "resolve" /\ pc = "done" /\ Acyclic /\ AllRequiredAndPresent)
        => /\ InstallationOrder
           /\ NamesOf(resolved) = NamesOf(Closure(root_packages, {}, <<>>))
           /\ Len(resolved) = Cardinality(NamesOf(resolved))
           /\ ChainABC => [i \in 1..Len(resolved) |-> resolved[i].name] = <<"C", "B", "A">>

C10_Witness ==
    /\ command = "resolve" /\ pc = "done" /\ ChainABC
    /\ Len(resolved) = 3

\* C8: in one execution of a chain the steps are started in declared order,
\* each only after the one before it exited successfully, and none after the
\* first step that failed or could not be launched.
C8_ChainInOrder ==
    /\ Len(exits) = Len(started)
    /\ Len(started) <= steps
    /\ \A i \in 1..Len(started) :
         /\ started[i] = i
         /\ i < Len(started) => exits[i] = "success"

C8_Witness ==
    /\ command = "compile" /\ pc = "done" /\ steps = 2
    /\ started = <<1>> /\ exits = <<"failure">>

\* ------------------------------------------------------------------ C11
\* The pairs of entries of the input with one name and two different versions.
ConflictingPairs ==
    {p \in (1..Len(input)) \X (1..Len(input)) :
        /\ p[1] < p[2]
        /\ input[p[1]].name = input[p[2]].name
        /\ input[p[1]].version # input[p[2]].version}

\* C11: check_conflicts reports every pair of entries that have the same name
\* and differing versions, each pair once, and nothing for equal versions: the
\* reports correspond one to one to the conflicting pairs.
C11_EveryPairReported ==
    (command = "check_conflicts" /\ pc = "done") =>
        /\ \A p \in ConflictingPairs :
             \E k \in 1..Len(answer) :
                answer[k] = Conflict(input[p[1]].name, input[p[1]].version,
                                     input[p[2]].version)
        /\ Len(answer) = Cardinality(ConflictingPairs)
        /\ \A k \in 1..Len(answer) : answer[k].existing_version # answer[k].version

\* ------------------------------------------------------------------ C12
Classified == command = "classify" /\ pc = "done"

C13_SortedUnion ==
    Classified =>
        /\ \A i \in 1..(Len(answer.names) - 1) : answer.names[i] < answer.names[i + 1]
        /\ {answer.names[i] : i \in 1..Len(answer.names)} =
              {l.name : l \in {x \in input : x.kind \in CaptureKinds /\ x.name # 0}}
              \cup {1 : l \in {x \in input : x.cmd = "includegraphics"}}
              \cup {2 : l \in {x \in input : x.cmd = "href"}}
        /\ \A n \in Names :
              input = {Line("FileStyNotFound", n, "")}
                 => answer.names = <<n>> /\ answer.verdict

\* Two patterns capture the names 2 and 1 and the list is <<1, 2>>; and the
\* single missing-file output of the example.
C13_Witness ==
    /\ Classified
    /\ \/ /\ input = {Line("FileStyNotFound", 2, ""), Line("PackageError", 1, "")}
          /\ answer.names = <<1, 2>>
       \/ /\ input = {Line("FileStyNotFound", 2, "")}
          /\ answer = [names |-> <<2>>, verdict |-> TRUE]

\* ------------------------------------------------------------------ C14
ParsedContent == command = "parse_content" /\ pc = "done"

\* The first percent sign of the line that no backslash precedes, 0 if none.
FirstUnescapedPercent(line) ==
    IF \E i \in 1..Len(line) : line[i] = Percent
    THEN CHOOSE i \in 1..Len(line) :
            line[i] = Percent /\ \A j \in 1..(i - 1) : line[j] # Percent
    ELSE 0

\* The command at position j of the line declares the dependency d.
Declares(line, j, d) ==
    /\ line[j].tok = "cmd"
    /\ line[j].kind = d.dependency_type
    /\ \E e \in 1..Len(line[j].entries) : line[j].entries[e] = d.package_name

ReturnedFor(l) ==
    {answer.dependencies[k] : k \in {x \in 1..Len(answer.dependencies) :
                                        answer.dependencies[x].line_number = l}}

\* C14: no dependency comes from text at or after the first unescaped % of
\* its line, also when an escaped \% stands earlier on the line; a line with
\* only white space before that % yields no dependency.
C14_NothingAfterComment ==
    ParsedContent =>
        \A l \in 1..Len(input) :
            LET p == FirstUnescapedPercent(input[l])
            IN p > 0 =>
                 /\ \A d \in ReturnedFor(l) :
                       \E j \in 1..(p - 1) : Declares(input[l], j, d)
                 /\ (\A j \in 1..(p - 1) : input[l][j] = Space) => ReturnedFor(l) = {}

\* ------------------------------------------------------------------ C15
\* C15: parse_content returns Ok; every line_number is the 1-based index of a
\* line of the text that holds the command the dependency comes from; the
\* line numbers never decrease along the returned sequence.
C15_LineNumbers ==
    ParsedContent =>
        LET deps == answer.dependencies
        IN /\ answer.kind = "Ok"
           /\ \A k \in 1..Len(deps) :
                 /\ deps[k].line_number \in 1..Len(input)
                 /\ \E j \in 1..Len(input[deps[k].line_number]) :
                       Declares(input[deps[k].line_number], j, deps[k])
           /\ \A k \in 1..(Len(deps) - 1) :
                 deps[k].line_number <= deps[k + 1].line_number

\* A dependency of the second line after one of the first line, and a text
\* whose first line is a comment and whose second line declares a class.
C15_Witness ==
    /\ ParsedContent
    /\ \/ /\ Len(answer.dependencies) = 2
          /\ answer.dependencies[1].line_number = 1
          /\ answer.dependencies[2].line_number = 2
          /\ answer.dependencies[1].package_name # answer.dependencies[2].package_name
       \/ /\ input = <<<<Percent>>, <<Cmd("DocumentClass", <<2>>)>>>>
          /\ Len(answer.dependencies) = 1
          /\ answer.dependencies[1].line_number = 2

\* ------------------------------------------------------------------ C16
\* The order of the kinds the claim names.
KindOrder ==
    <<"UsePackage", "RequirePackage", "DocumentClass", "LoadClass", "Input",
      "Include", "Bibliography", "BibliographyStyle">>

KindRank(k) == CHOOSE i \in 1..Len(KindOrder) : KindOrder[i] = k

RECURSIVE NamesLeftToRight(_, _)
\* The names the commands of kind k declare on the line, left to right.
NamesLeftToRight(line, k) ==
    IF line = <<>> THEN <<>>
    ELSE (IF Head(line).tok = "cmd" /\ Head(line).kind = k
          THEN (IF k \in ListKinds
                THEN SelectSeq(Head(line).entries, LAMBDA e : e # 0)
                ELSE <<Head(line).entries[1]>>)
          ELSE <<>>)
         \o NamesLeftToRight(Tail(line), k)

\* C16: the dependencies of one line come grouped by kind in the extractor
\* order and left to right within a kind; \usepackage{amsmath}\documentclass{article}
\* gives amsmath (UsePackage), then article (DocumentClass), and nothing else.
C16_KindOrder ==
    ParsedContent =>
        LET deps == answer.dependencies
        IN /\ \A k \in 1..(Len(deps) - 1) :
                 deps[k].line_number = deps[k + 1].line_number =>
                    KindRank(deps[k].dependency_type)
                       <= KindRank(deps[k + 1].dependency_type)
           /\ \A l \in 1..Len(input) :
                 (\A j \in 1..Len(input[l]) : input[l][j].tok \in {"cmd", "sp"}) =>
                    \A t \in DependencyTypes :
                       LET of_kind == SelectSeq(deps, LAMBDA d :
                                         d.line_number = l /\ d.dependency_type = t)
                       IN [i \in 1..Len(of_kind) |-> of_kind[i].package_name]
                             = NamesLeftToRight(input[l], t)
           /\ input = <<<<Cmd("UsePackage", <<1>>), Cmd("DocumentClass", <<2>>)>>>> =>
                 /\ Len(deps) = 2
                 /\ deps[1].package_name = 1 /\ deps[1].dependency_type = "UsePackage"
                 /\ deps[2].package_name = 2 /\ deps[2].dependency_type = "DocumentClass"

\* The class is declared to the left of the packages and comes after them.
C16_Witness ==
    /\ ParsedContent
    /\ input = <<<<Cmd("DocumentClass", <<2>>), Cmd("UsePackage", <<2, 0, 1>>),
                  Cmd("UsePackage", <<1>>)>>>>
    /\ [i \in 1..Len(answer.dependencies) |->
           <<answer.dependencies[i].package_name,
             answer.dependencies[i].dependency_type>>]
         = << <<2, "UsePackage">>, <<1, "UsePackage">>, <<1, "UsePackage">>,
              <<2, "DocumentClass">> >>

\* ------------------------------------------------------------------ C20
\* C20: get_unique_packages returns an ascending, duplicate-free list of
\* exactly the names that occur in the input with one of the four package
\* kinds; a name that occurs with file kinds only is absent. (The ascending
\* list of a given set is unique, so equal inputs give equal outputs.)
C20_UniquePackages ==
    (command = "get_unique_packages" /\ pc = "done") =>
        /\ \A i \in 1..(Len(answer) - 1) : answer[i] < answer[i + 1]
        /\ \A n \in Names :
              (\E i \in 1..Len(answer) : answer[i] = n)
                 <=> \E k \in 1..Len(input) :
                        /\ input[k].package_name = n
                        /\ input[k].dependency_type \in
                              {"UsePackage", "RequirePackage", "DocumentClass",
                               "LoadClass"}
        /\ \A i \in 1..Len(answer) : answer[i] \in Names

\* The name 2 comes first in the input and with \input only; the name 1
\* comes as a class: the list is <<1>>.
C20_Witness ==
    /\ command = "get_unique_packages" /\ pc = "done"
    /\ input = <<TeXDependency(2, "Input", 1, <<>>),
                 TeXDependency(1, "DocumentClass", 1, <<>>)>>
    /\ answer = <<1>>

\* ------------------------------------------------------------------ C19
\* C19: no name reported as missing by analyze or by the automatic
\* installation is one for which is_package_installed is true, in static
\* mode and in compile mode alike.
C19_ReportedPassedMembershipTest ==
    (command \in {"analyze", "install_auto"} /\ pc = "done") =>
        \A i \in 1..Len(answer.missing_packages) :
            /\ ~texlive_is_package_installed(input, answer.missing_packages[i])
            /\ ~local_is_package_installed(input, answer.missing_packages[i])

\* ------------------------------------------------------------------ C17
\* C17: within one parse_project run no file is parsed twice, also when it
\* can be reached from the project root by more than one path.
C17_NoFileParsedTwice ==
    (command = "parse_project" /\ ~read_failed) =>
        \A i, j \in 1..Len(parsed) : parsed[i].file = parsed[j].file => i = j

\* ------------------------------------------------------------------ C18
\* A tool of the chain could not be launched: the detection loop is over with
\* the error of that step, no output was classified and no pass follows.
LaunchFailureIsFatal ==
    (command = "detect" /\ \E i \in 1..Len(exits) : exits[i] = "launch_error") =>
        /\ pc = "done"
        /\ result.kind = "Err" /\ result.why = "launch"

\* C18 as claimed: every I/O failure is fatal to the operation that meets it:
\* after a source file could not be read, parse_file and parse_project are
\* over with an error; a tool that cannot be launched ends the detection loop
\* with an error at once.
C18_EveryIOFailureFatal ==
    /\ (command \in {"parse_file", "parse_project"} /\ read_failed) =>
          pc = "done" /\ answer.kind = "Err"
    /\ LaunchFailureIsFatal

\* C18 amended: parse_file returns an error for a file that cannot be read;
\* parse_project returns an error only for a directory that cannot be listed,
\* never for a file that cannot be read; a tool that cannot be launched ends
\* the detection loop with an error at once.
C18_IOFailures ==
    /\ (command = "parse_file" /\ read_failed) => pc = "done" /\ answer.kind = "Err"
    /\ (command = "parse_project" /\ pc = "done") =>
          /\ answer.kind \in {"Ok", "Err"}
          /\ answer.kind = "Err" => answer.why = "read_dir"
    /\ LaunchFailureIsFatal

\* A walk that met an unreadable file, went on and returned Ok with the
\* files it parsed after it.
C18_Witness ==
    /\ command = "parse_project" /\ pc = "done"
    /\ read_failed
    /\ answer.kind = "Ok"
    /\ Len(answer.parsed) >= 2

\* ------------------------------------------------------------------ C21
\* C21: filtering a filtered list gives the same list, and the filtered list
\* is the input without its core names (article among them), the other
\* entries in their original order.
C21_FilterIdempotent ==
    (command = "filter_core_packages" /\ pc \in {"done", "again"}) =>
        /\ answer[1] = SelectSeq(input, LAMBDA n : n \notin {"article", "book"})
        /\ pc = "again" => answer[2] = answer[1]
        /\ input = <<"amsmath", "article">> => answer[1] = <<"amsmath">>

\* A list with a core name between two others, one of them twice, filtered twice.
C21_Witness ==
    /\ command = "filter_core_packages" /\ pc = "again"
    /\ input = <<"graphicx", "article", "graphicx">>
    /\ answer = << <<"graphicx", "graphicx">>, <<"graphicx", "graphicx">> >>

\* ------------------------------------------------------------------ C22
ConfigSetDone == command \in {"config_set_global", "config_set_project"} /\ pc = "done"

\* C22: the chain of CompileCommand::new and every chain a config set leaves
\* in the configuration has at least one step and no step with an empty tool
\* name; a string without a tool token (only `|` and white space, or nothing)
\* makes the set fail and the configuration keep the chain it had.
C22_ChainInvariant ==
    /\ Len(CompileCommand_new.steps) >= 1
    /\ \A i \in 1..Len(CompileCommand_new.steps) : CompileCommand_new.steps[i].tool # <<>>
    /\ ConfigSetDone =>
          /\ Len(answer.compile_command.steps) >= 1
          /\ \A i \in 1..Len(answer.compile_command.steps) :
                answer.compile_command.steps[i].tool # <<>>
          /\ (\A i \in 1..Len(input) : input[i] \in {"|", " "}) =>
                answer = [kind |-> "Err", compile_command |-> CompileCommand_new]
          /\ (\E i \in 1..Len(input) : input[i] \notin {"|", " "}) =>
                answer.kind = "Ok"

\* "a| -": two parts, one of them without a tool token; one step is built.
C22_Witness ==
    /\ ConfigSetDone
    /\ \/ /\ input = <<"a", "|", " ", "-">>
          /\ answer.kind = "Ok"
          /\ answer.compile_command.steps = <<ChainStep(<<"a">>, <<>>),
                                              ChainStep(<<"-">>, <<>>)>>
       \/ /\ input = <<"|", " ", "|">>
          /\ answer.kind = "Err"

\* ------------------------------------------------------------------ C23
Resolved == command = "resolve" /\ pc = "done"

\* The list the breadth-first walk of resolve built, before it is reordered.
Discovered == Closure(root_packages, {}, <<>>)

\* The package n of the closure is on a cycle of declared dependencies that
\* runs inside the closure.
OnCycle(n) ==
    /\ n \in NamesOf(Discovered)
    /\ \E b, c \in NamesOf(Discovered) :
          \/ DependsOn(n, b) /\ DependsOn(b, n)
          \/ DependsOn(n, b) /\ DependsOn(b, c) /\ DependsOn(c, n)

\* The topological sort puts n into its sorted list for some order of the
\* initial queue.
ReachesZero(n) ==
    \E zero_order \in Orders(ZeroDegree(Discovered)) :
        LET sorted == Kahn(zero_order, <<>>, in_degree(Discovered), Discovered)
        IN \E i \in 1..Len(sorted) : sorted[i] = n

PositionIn(list, n) == CHOOSE i \in 1..Len(list) : list[i].name = n

\* C24: the packages that have in-degree zero from the start come in the
\* order in which the breadth-first walk discovered them.
C24_TiesInDiscoveryOrder ==
    Resolved =>
        \A a, b \in ZeroDegree(Discovered) :
            PositionIn(Discovered, a) < PositionIn(Discovered, b)
               => PositionIn(resolved, a) < PositionIn(resolved, b)

\* The names the catalog holds.
InCatalog == {n \in PkgNames : packages[n] # <<>>}

\* The version of n added last.
Selected(n) == packages[n][Len(packages[n])]

RequiredOf(n) ==
    {Selected(n).dependencies[i].name :
        i \in {j \in 1..Len(Selected(n).dependencies) : ~Selected(n).dependencies[j].optional}}

RECURSIVE ReachableFrom(_)
\* The least set of catalog names that holds s and the catalog names required
\* by the selected version of each of its members.
ReachableFrom(s) ==
    LET next == s \cup (UNION {RequiredOf(n) : n \in s} \cap InCatalog)
    IN IF next = s THEN s ELSE ReachableFrom(next)

RootNames == {root_packages[i] : i \in 1..Len(root_packages)}

\* C25: resolve returns Ok, and the names of its list are exactly the catalog
\* names reachable from the roots through the non-optional dependencies of the
\* selected versions, the selected version of a name being the one added last;
\* names the catalog does not hold are skipped.
C25_ExactlyTheClosure ==
    Resolved =>
        /\ result.kind = "Ok"
        /\ NamesOf(resolved) = ReachableFrom(RootNames \cap InCatalog)
        /\ \A i \in 1..Len(resolved) : resolved[i] = Selected(resolved[i].name)

\* A has two versions, the first requiring B and the last requiring C; the
\* catalog holds C but not B, and the roots are A and B.
C25_Witness ==
    /\ Resolved
    /\ root_packages = <<"A", "B">>
    /\ packages["B"] = <<>>
    /\ packages["C"] # <<>>
    /\ Len(packages["A"]) = 2
    /\ packages["A"][1].dependencies = <<Dep("B", FALSE)>>
    /\ packages["A"][2].dependencies = <<Dep("C", FALSE)>>
    /\ NamesOf(resolved) = {"A", "C"}

\* C29: the list resolve returns never holds two entries with the same name,
\* whatever the roots (repeated or not) and the catalog (several versions,
\* cycles), so check_conflicts finds nothing in it.
C29_NoNameTwice ==
    Resolved =>
        /\ \A i, j \in 1..Len(resolved) : resolved[i].name = resolved[j].name => i = j
        /\ check_conflicts(resolved) = <<>>

\* A root given twice, two versions under its name, and a cycle through it.
C29_Witness ==
    /\ Resolved
    /\ root_packages = <<"A", "A">>
    /\ Len(packages["A"]) = 2
    /\ packages["A"][2].dependencies = <<Dep("B", FALSE)>>
    /\ packages["B"] # <<>>
    /\ Selected("B").dependencies = <<Dep("A", FALSE)>>
    /\ Len(resolved) = 2

DetectionReturnedOk == command = "detect" /\ pc = "done" /\ result.kind = "Ok"

\* Every one of the max_iterations passes added a name.
Exhausted == runs = max_iterations /\ new_passes = max_iterations

\* The run ended on a pass that found nothing.
EndedConverged == "compilation_successful" \in notes \/ "no_more_missing" \in notes

\* C26: a run that ends stalled or at the iteration ceiling returns Ok with the
\* accumulated names and has printed a note that detection did not converge
\* (the no-new-packages note or the maximum-iterations note); the
\* maximum-iterations note is printed when, and only when, all max_iterations
\* passes were used without converging.
C26_NonConvergenceNoted ==
    DetectionReturnedOk =>
        /\ result = Ok(all_missing_packages)
        /\ ~EndedConverged =>
              "no_new_packages" \in notes \/ "max_iterations_reached" \in notes
        /\ "max_iterations_reached" \in notes <=> Exhausted

\* ------------------------------------------------------------------ C27
\* C27: every dependency parse_content returns, of any kind, has a non-empty
\* trimmed name (name 0 is the empty string a blank entry trims to): blank
\* entries of a list are discarded and a brace group that holds only white
\* space yields no dependency.
C27_NoEmptyName ==
    ParsedContent =>
        \A k \in 1..Len(answer.dependencies) : answer.dependencies[k].package_name # 0

\* ------------------------------------------------------------------ C28
WalkedOk == command = "parse_project" /\ pc = "done" /\ answer.kind = "Ok"

RECURSIVE FilesUnder(_, _, _)
\* The paths below a directory that resolve to a regular file, each with the
\* file's extension; the last name of a path is the file's.
FilesUnder(path, dir, links) ==
    UNION {IF e.kind = "file"
           THEN {[path |-> Append(path, e.name), ext |-> e.ext]}
           ELSE IF e.kind = "dir"
           THEN FilesUnder(Append(path, e.name), e.to, links)
           ELSE IF links + 1 <= MaxLinkDepth
           THEN FilesUnder(Append(path, e.name), e.to, links + 1)
           ELSE {}
             : e \in {input[dir][i] : i \in 1..Len(input[dir])}}

\* The directory names the walk leaves out: `packages`, `.git` and the names
\* with a leading dot.
ExcludedName(n) == n \in {"packages", ".git", ".cache"}

\* tex, latex, sty or cls in any case.
SourceExtension(extension) == extension \in {"tex", "TEX", "latex", "sty", "STY", "cls"}

ParsedPaths == {parsed[i].path : i \in 1..Len(parsed)}

\* C28: a walk that returns Ok has called parse_file on exactly the files
\* whose extension is tex, latex, sty or cls in any case and whose path below
\* the project root runs through no directory named `packages` or `.git` or
\* with a leading dot.
C28_ParsedExactly ==
    WalkedOk =>
        ParsedPaths =
            {f.path : f \in {g \in FilesUnder(<<>>, "root", 0) :
                /\ SourceExtension(g.ext)
                /\ \A k \in 1..(Len(g.path) - 1) : ~ExcludedName(g.path[k])}}

\* The root holds `.cache` with a .tex file in it, and sub holds CH.STY.
C28_Witness ==
    /\ WalkedOk
    /\ \E i \in 1..Len(input["root"]) : input["root"][i].name = ".cache"
    /\ <<"sub", "CH.STY">> \in ParsedPaths
    /\ <<"main.tex">> \in ParsedPaths
    /\ <<".cache", "x.tex">> \notin ParsedPaths
    /\ <<"sub", "notes.txt">> \notin ParsedPaths

\* ------------------------------------------------------------------ C30
\* The registry entry of a name: its version, or "none".
EntryOf(reg, n) == IF reg.exists /\ n \in DOMAIN reg.entries THEN reg.entries[n] ELSE "none"

\* C30, the state part: is_package_installed(p) is true exactly when the last
\* install or remove call on p that returned Ok was an install.
C30_InstalledIffLastInstall ==
    \A p \in RegNames : is_package_installed(p) <=> last_call[p] = "install"

\* C30, the step part: installing an installed package and removing a package
\* that is not installed leave the registry as it was, and a call on p leaves
\* the entry of every other name as it was.
C30_CallStep ==
    /\ call'.op = "install" /\ call'.ok /\ is_installed(call'.name) => registry' = registry
    /\ call'.op = "remove" /\ call'.ok /\ ~is_installed(call'.name) => registry' = registry
    /\ \A q \in RegNames \ {call'.name} : EntryOf(registry', q) = EntryOf(registry, q)

\* C30: after any sequence of install and remove calls, a package is reported
\* installed exactly when the last successful call on it was an install; a
\* repeated install and a remove of a package that is not installed change
\* nothing in the registry; no call on p changes the entry of another package.
C30_RegistryFollowsCalls ==
    []C30_InstalledIffLastInstall /\ [][C30_CallStep]_vars

\* amsmath installed, removed and installed again, geometry installed twice,
\* keyval removed without having been installed.
C30_Witness ==
    /\ command = "package_manager"
    /\ last_call = [amsmath |-> "install", geometry |-> "install", keyval |-> "remove"]
    /\ call = [op |-> "install", name |-> "amsmath", ok |-> TRUE]
    /\ DOMAIN registry.entries = {"amsmath", "geometry"}
    /\ sty_files = {"amsmath", "geometry"}

====
